---- MODULE Spec2Model ----
(***************************************************************************)
(* MetricsRepository (src/repository/metricsRepository.py): a data-access  *)
(* class that turns each public method into one or two REST calls against  *)
(* a remote "metrics" table and folds every failure into an empty result.  *)
(*                                                                         *)
(* State: the rows held by the remote table, and the record of the last    *)
(* method call (method, arguments, requests sent, replies received, value  *)
(* returned).  The accessor itself keeps no mutable state between calls.   *)
(***************************************************************************)
EXTENDS Integers, Sequences, FiniteSets, TLC

VARIABLES store, last

vars == <<store, last>>

(***************************************************************************)
(* Bounds of the model.                                                    *)
(***************************************************************************)
\* rows the remote table accepts from the accessor before it refuses inserts
MaxRows == 2
\* rows a pre-populated table holds beyond the two page sizes of the code
BulkExtra == 1

(***************************************************************************)
(* Program constants.                                                      *)
(***************************************************************************)
\* limit: int = 100, the default page size of the three list methods
DefaultLimit == 100
\* self.get_all_metrics(limit=1000) in get_metrics_summary
SummaryLimit == 1000
\* offset: int = 0
DefaultOffset == 0
StatusCreated == 201
StatusOK == 200

(***************************************************************************)
(* Python / JSON values.  A scalar carries its kind; v is its integer      *)
(* content (the number, or the code of an identifier string).              *)
(***************************************************************************)
IntV(n) == [k |-> "int", v |-> n]
StrV(n) == [k |-> "str", v |-> n]
FloatV == [k |-> "float", v |-> 0]
BoolV == [k |-> "bool", v |-> 1]
NoneV == [k |-> "none", v |-> 0]

\* isinstance(x, int): bool is a subclass of int in Python
isinstance_int(x) == x.k \in {"int", "bool"}

\* None, a JSON array of rows, a JSON object (one row)
PyNone == [kind |-> "None", rows |-> <<>>]
PyList(rows) == [kind |-> "list", rows |-> rows]
PyDict(row) == [kind |-> "dict", rows |-> <<row>>]

EmptyDict == [x \in {} |-> NoneV]

\* a dict display {k1: v1, k2: v2, ...}: a later pair with an equal key
\* replaces the earlier one
DictLit(pairs) ==
    [key \in {pairs[i][1] : i \in DOMAIN pairs} |->
        LET hits == {i \in DOMAIN pairs : pairs[i][1] = key}
            lastHit == CHOOSE i \in hits : \A j \in hits : j <= i
        IN pairs[lastHit][2]]

(***************************************************************************)
(* The table: columns and the score fields the code names.                 *)
(***************************************************************************)
Columns == {"repoID", "importID", "commitHistScore", "complexityScore",
            "churnScore", "totalScore", "packageVersionScore"}

\* variant: importID left out of the list
required_fields_short == <<"repoID", "commitHistScore", "complexityScore">>

required_fields == <<"repoID", "importID", "commitHistScore", "complexityScore">>

\* variant: a key column let through as a score field
valid_score_fields_wide == <<"commitHistScore", "complexityScore", "churnScore",
                             "totalScore", "packageVersionScore", "repoID">>

valid_score_fields == <<"commitHistScore", "complexityScore", "churnScore",
                        "totalScore", "packageVersionScore">>

score_fields == <<"commitHistScore", "complexityScore", "churnScore",
                  "totalScore", "packageVersionScore">>

SeqRange(s) == {s[i] : i \in DOMAIN s}

Min(a, b) == IF a <= b THEN a ELSE b

(***************************************************************************)
(* Requests.  A query-string value is the operator in front of the dot and *)
(* the value behind it ('eq.<id>', 'gte.<n>', 'lte.<n>'), a bare number    *)
(* (limit, offset) or a keyword ('*', 'count', 'exact').                   *)
(***************************************************************************)
Eq(x) == [op |-> "eq", v |-> x]
Gte(n) == [op |-> "gte", v |-> n]
Lte(n) == [op |-> "lte", v |-> n]
Num(n) == [op |-> "num", v |-> n]
SelectAll == [op |-> "*", v |-> 0]
SelectCount == [op |-> "count", v |-> 0]
Exact == [op |-> "exact", v |-> 0]

Post(json) == [method |-> "POST", params |-> EmptyDict, json |-> json]
Get(params) == [method |-> "GET", params |-> params, json |-> EmptyDict]

(***************************************************************************)
(* Replies.  raised: the transport threw instead of answering.             *)
(* content_range is the header '<first>-<last>/<total>' of a count reply.  *)
(***************************************************************************)
NoRange == [present |-> FALSE, first |-> 0, last |-> 0, total |-> 0]
Range(n) == [present |-> TRUE, first |-> 0, last |-> IF n = 0 THEN 0 ELSE n - 1,
             total |-> n]
Http(status, body, range) ==
    [raised |-> FALSE, status |-> status, body |-> body, content_range |-> range]
Raised == [raised |-> TRUE, status |-> 0, body |-> PyNone, content_range |-> NoRange]

(***************************************************************************)
(* The remote table, as the accessor's requests see it (spec section 6):   *)
(* POST inserts one row and echoes it with 201, GET filters by the         *)
(* eq/gte/lte parameters and pages by limit/offset, the count mode reports *)
(* the exact row count in content-range.  Any request can also fail with   *)
(* a non-success status or a transport error.                              *)
(***************************************************************************)
ScoreColumns == Columns \ {"repoID", "importID"}

\* the row a JSON body becomes: a column the body lacks is null
RowOf(json) == [c \in Columns |-> IF c \in DOMAIN json THEN json[c] ELSE NoneV]

\* the table's schema: identifiers are strings, the two required scores are
\* integers, the optional scores are integers or null
SchemaOK(json) ==
    /\ DOMAIN json \subseteq Columns
    /\ \A c \in {"repoID", "importID"} : c \in DOMAIN json /\ json[c].k = "str"
    /\ \A c \in {"commitHistScore", "complexityScore"} :
          c \in DOMAIN json /\ json[c].k = "int"
    /\ \A c \in ScoreColumns \cap DOMAIN json : json[c].k \in {"int", "none"}

\* (repoID, importID) is the primary key
KeyFree(st, json) ==
    \A i \in DOMAIN st :
        ~(st[i]["repoID"] = json["repoID"] /\ st[i]["importID"] = json["importID"])

Accepts(st, json) == SchemaOK(json) /\ KeyFree(st, json) /\ Len(st) < MaxRows

FilterKeys(params) == DOMAIN params \ {"select", "limit", "offset", "count"}

QueryOK(params) ==
    \A key \in FilterKeys(params) :
        /\ key \in Columns
        /\ \/ params[key].op = "eq" /\ key \in {"repoID", "importID"}
           \/ params[key].op \in {"gte", "lte"} /\ key \in ScoreColumns

\* a null never satisfies a comparison
Matches(row, key, p) ==
    /\ row[key].k # "none"
    /\ CASE p.op = "eq" -> row[key].v = p.v
         [] p.op = "gte" -> row[key].v >= p.v
         [] p.op = "lte" -> row[key].v <= p.v
         [] OTHER -> FALSE

QueryRows(st, params) ==
    LET Test(row) == \A key \in FilterKeys(params) : Matches(row, key, params[key])
        hit == SelectSeq(st, Test)
        off == IF "offset" \in DOMAIN params THEN params["offset"].v ELSE 0
        upto == IF "limit" \in DOMAIN params
                THEN Min(Len(hit), off + params["limit"].v) ELSE Len(hit)
    IN SubSeq(hit, off + 1, upto)

\* every way the table can treat a request: the reply and the table after it
StoreHandle(st, req) ==
    {[reply |-> Raised, store |-> st],
     [reply |-> Http(500, PyNone, NoRange), store |-> st]}
    \cup
    (IF req.method = "POST"
     THEN IF Accepts(st, req.json)
          THEN LET row == RowOf(req.json)
                   st2 == Append(st, row)
               IN {[reply |-> Http(StatusCreated, PyList(<<row>>), NoRange), store |-> st2],
                   [reply |-> Http(StatusCreated, PyDict(row), NoRange), store |-> st2],
                   [reply |-> Raised, store |-> st2]}
          ELSE {[reply |-> Http(IF SchemaOK(req.json) THEN 409 ELSE 400, PyNone, NoRange),
                 store |-> st]}
     ELSE IF "count" \in DOMAIN req.params
          THEN {[reply |-> Http(StatusOK, PyList(<<>>), Range(Len(st))), store |-> st],
                [reply |-> Http(StatusOK, PyList(<<>>), NoRange), store |-> st]}
          ELSE IF QueryOK(req.params)
               THEN {[reply |-> Http(StatusOK, PyList(QueryRows(st, req.params)), NoRange),
                      store |-> st]}
               ELSE {[reply |-> Http(400, PyNone, NoRange), store |-> st]})

(***************************************************************************)
(* The methods.  Each is the set of its possible outcomes against table    *)
(* st: the requests it sent, the replies it got, the value it returned and *)
(* the table afterwards.                                                   *)
(***************************************************************************)
Outcome(reqs, replies, result, st) ==
    [reqs |-> reqs, replies |-> replies, result |-> result, store |-> st]

\* the two validation steps of create_metric; neither raises ValueError
create_metric_valid(metric_data) ==
    /\ \A i \in DOMAIN required_fields : required_fields[i] \in DOMAIN metric_data
    /\ isinstance_int(metric_data["commitHistScore"])
    /\ isinstance_int(metric_data["complexityScore"])

\* variant: the echoed array returned as it is, without [0]
create_metric_return_whole(reply) ==
    IF reply.raised THEN PyNone
    ELSE IF reply.status = StatusCreated THEN reply.body ELSE PyNone

\* what create_metric returns for a reply; created_metric[0] of an empty
\* list raises IndexError, which the except clause turns into None
create_metric_return(reply) ==
    IF reply.raised THEN PyNone
    ELSE IF reply.status = StatusCreated
         THEN IF reply.body.kind = "list"
              THEN IF Len(reply.body.rows) = 0 THEN PyNone
                   ELSE PyDict(reply.body.rows[1])
              ELSE reply.body
         ELSE PyNone

create_metric(metric_data, st) ==
    IF ~create_metric_valid(metric_data)
    THEN {Outcome(<<>>, <<>>, PyNone, st)}
    ELSE LET req == Post(metric_data)
         IN {Outcome(<<req>>, <<h.reply>>, create_metric_return(h.reply), h.store) :
                h \in StoreHandle(st, req)}

\* variant: the importID filter left out
get_metric_by_keys_params_repo_only(repo_id, import_id) ==
    DictLit(<< <<"repoID", Eq(repo_id)>>, <<"select", SelectAll>> >>)

get_metric_by_keys_params(repo_id, import_id) ==
    DictLit(<< <<"repoID", Eq(repo_id)>>, <<"importID", Eq(import_id)>>,
               <<"select", SelectAll>> >>)

\* data[0] when the list is non-empty, None otherwise
get_metric_by_keys_return(reply) ==
    IF reply.raised THEN PyNone
    ELSE IF reply.status = StatusOK
         THEN IF Len(reply.body.rows) > 0 THEN PyDict(reply.body.rows[1]) ELSE PyNone
         ELSE PyNone

get_metric_by_keys(repo_id, import_id, st) ==
    LET req == Get(get_metric_by_keys_params(repo_id, import_id))
    IN {Outcome(<<req>>, <<h.reply>>, get_metric_by_keys_return(h.reply), h.store) :
           h \in StoreHandle(st, req)}

\* the shared tail of the four list methods: response.json() on 200, else []
list_return(reply) ==
    IF reply.raised THEN PyList(<<>>)
    ELSE IF reply.status = StatusOK THEN reply.body ELSE PyList(<<>>)

get_metrics_by_repo_params(repo_id, limit, offset) ==
    DictLit(<< <<"repoID", Eq(repo_id)>>, <<"select", SelectAll>>,
               <<"limit", Num(limit)>>, <<"offset", Num(offset)>> >>)

get_metrics_by_repo(repo_id, limit, offset, st) ==
    LET req == Get(get_metrics_by_repo_params(repo_id, limit, offset))
    IN {Outcome(<<req>>, <<h.reply>>, list_return(h.reply), h.store) :
           h \in StoreHandle(st, req)}

get_metrics_by_import_params(import_id, limit, offset) ==
    DictLit(<< <<"importID", Eq(import_id)>>, <<"select", SelectAll>>,
               <<"limit", Num(limit)>>, <<"offset", Num(offset)>> >>)

get_metrics_by_import(import_id, limit, offset, st) ==
    LET req == Get(get_metrics_by_import_params(import_id, limit, offset))
    IN {Outcome(<<req>>, <<h.reply>>, list_return(h.reply), h.store) :
           h \in StoreHandle(st, req)}

\* variant: requests.post in place of requests.get
get_all_metrics_request_post(limit, offset) ==
    [method |-> "POST",
     params |-> DictLit(<< <<"select", SelectAll>>, <<"limit", Num(limit)>>,
                           <<"offset", Num(offset)>> >>),
     json |-> EmptyDict]

get_all_metrics_request(limit, offset) ==
    Get(DictLit(<< <<"select", SelectAll>>, <<"limit", Num(limit)>>,
                   <<"offset", Num(offset)>> >>))

get_all_metrics(limit, offset, st) ==
    LET req == get_all_metrics_request(limit, offset)
    IN {Outcome(<<req>>, <<h.reply>>, list_return(h.reply), h.store) :
           h \in StoreHandle(st, req)}

\* the params display of get_metrics_by_score_range names score_field twice
get_metrics_by_score_range_params(score_field, min_score, max_score) ==
    DictLit(<< <<"select", SelectAll>>, <<score_field, Gte(min_score)>>,
               <<score_field, Lte(max_score)>> >>)

get_metrics_by_score_range(score_field, min_score, max_score, st) ==
    IF score_field \notin SeqRange(valid_score_fields)
    THEN {Outcome(<<>>, <<>>, PyList(<<>>), st)}
    ELSE LET req == Get(get_metrics_by_score_range_params(score_field, min_score,
                                                          max_score))
         IN {Outcome(<<req>>, <<h.reply>>, list_return(h.reply), h.store) :
                h \in StoreHandle(st, req)}

(***************************************************************************)
(* Averages.  sum(valid_scores) / len(valid_scores) is kept as the reduced *)
(* fraction; a dict is the set of its <<key, value>> items.                *)
(***************************************************************************)
RECURSIVE GCD(_, _)
GCD(a, b) == IF b = 0 THEN a ELSE GCD(b, a % b)

Frac(n, d) == LET g == GCD(n, d) IN [k |-> "float", num |-> n \div g, den |-> d \div g]
NoneAvg == [k |-> "none", num |-> 0, den |-> 1]

\* sum of s[lo..hi].v
RECURSIVE SumV(_, _, _)
SumV(s, lo, hi) ==
    IF lo > hi THEN 0
    ELSE IF lo = hi THEN s[lo].v
    ELSE LET mid == (lo + hi) \div 2 IN SumV(s, lo, mid) + SumV(s, mid + 1, hi)

AvgKey(field) ==
    CASE field = "commitHistScore" -> "avg_commitHistScore"
      [] field = "complexityScore" -> "avg_complexityScore"
      [] field = "churnScore" -> "avg_churnScore"
      [] field = "totalScore" -> "avg_totalScore"
      [] field = "packageVersionScore" -> "avg_packageVersionScore"

\* [metric[field] for metric in metrics if metric.get(field) is not None]
valid_scores(metrics, field) ==
    LET Keep(metric) == field \in DOMAIN metric /\ metric[field].k # "none"
        kept == SelectSeq(metrics, Keep)
    IN [i \in DOMAIN kept |-> kept[i][field]]

\* variant: the sum divided by len(metrics), nulls counted
average_over_all(metrics, field) ==
    LET scores == valid_scores(metrics, field)
    IN IF Len(scores) > 0 THEN Frac(SumV(scores, 1, Len(scores)), Len(metrics))
       ELSE NoneAvg

\* one pass of the loop over score_fields
average(metrics, field) ==
    LET scores == valid_scores(metrics, field)
    IN IF Len(scores) > 0 THEN Frac(SumV(scores, 1, Len(scores)), Len(scores))
       ELSE NoneAvg

average_scores(metrics) ==
    {<<AvgKey(score_fields[i]), average(metrics, score_fields[i])>> :
        i \in DOMAIN score_fields}

SummaryOf(total_count, avg) ==
    [kind |-> "summary", total_count |-> total_count, average_scores |-> avg]

RepoSummaryOf(repo_id, metric_count, avg) ==
    [kind |-> "repo_summary", repo_id |-> repo_id, metric_count |-> metric_count,
     average_scores |-> avg]

\* int(count_header.split('/')[-1])
ParseTotal(range) == range.total

count_request == Get(DictLit(<< <<"select", SelectCount>>, <<"count", Exact>> >>))

\* a raising count request ends in the except clause; a non-200 count reply
\* leaves total_count at 0 and the method goes on to get_all_metrics, which
\* absorbs its own failures into []
get_metrics_summary(st) ==
    UNION {
        IF h.reply.raised
        THEN {Outcome(<<count_request>>, <<h.reply>>, SummaryOf(0, {}), h.store)}
        ELSE LET total_count ==
                     IF h.reply.status = StatusOK /\ h.reply.content_range.present
                     THEN ParseTotal(h.reply.content_range) ELSE 0
             IN {LET all_metrics == o.result.rows
                 IN Outcome(<<count_request>> \o o.reqs, <<h.reply>> \o o.replies,
                            SummaryOf(total_count,
                                      IF Len(all_metrics) > 0
                                      THEN average_scores(all_metrics) ELSE {}),
                            o.store) :
                    o \in get_all_metrics(SummaryLimit, DefaultOffset, h.store)}
        : h \in StoreHandle(st, count_request)}

get_repo_metrics_summary(repo_id, st) ==
    {LET metrics == o.result.rows
     IN Outcome(o.reqs, o.replies,
                IF Len(metrics) = 0 THEN RepoSummaryOf(repo_id, 0, {})
                ELSE RepoSummaryOf(repo_id, Len(metrics), average_scores(metrics)),
                o.store) :
        o \in get_metrics_by_repo(repo_id, DefaultLimit, DefaultOffset, st)}

(***************************************************************************)
(* Inputs.                                                                 *)
(***************************************************************************)
RepoIDs == {1, 2}
ImportIDs == {1, 2}

\* what a caller can put in a required score field
ScoreInputs == {IntV(4), StrV(0), FloatV, NoneV, BoolV}

\* well-formed payloads: the four required fields, churnScore optional
GoodPayloads ==
    UNION {
        LET base == [f \in SeqRange(required_fields) |->
                        CASE f = "repoID" -> StrV(r)
                          [] f = "importID" -> StrV(i)
                          [] f = "commitHistScore" -> IntV(4)
                          [] f = "complexityScore" -> IntV(c)]
        IN {base,
            [f \in DOMAIN base \cup {"churnScore"} |->
                IF f = "churnScore" THEN IntV(5) ELSE base[f]]}
        : <<r, i, c>> \in RepoIDs \X ImportIDs \X {4, 6}}

\* payloads for key (1, 1) over every subset of the required fields and
\* every kind of value in the two score fields
OddPayloads ==
    UNION {
        {[f \in D |->
            CASE f = "repoID" -> StrV(1)
              [] f = "importID" -> StrV(1)
              [] f = "commitHistScore" -> a
              [] f = "complexityScore" -> b] :
            <<a, b>> \in (IF "commitHistScore" \in D THEN ScoreInputs ELSE {NoneV})
                         \X (IF "complexityScore" \in D THEN ScoreInputs ELSE {NoneV})}
        : D \in SUBSET SeqRange(required_fields)}

Payloads == GoodPayloads \cup OddPayloads \cup
            {[f \in {"repoID", "importID", "commitHistScore", "complexityScore",
                     "churnScore"} |->
                CASE f = "repoID" -> StrV(2)
                  [] f = "importID" -> StrV(2)
                  [] f = "churnScore" -> NoneV
                  [] OTHER -> IntV(6)]}

Limits == {1, DefaultLimit}
Offsets == {DefaultOffset, 1}
ScoreFieldInputs == SeqRange(valid_score_fields) \cup {"repoID", "bogusScore"}
ScoreRanges == {<<3, 5>>, <<5, 7>>, <<5, 5>>, <<7, 3>>}

(***************************************************************************)
(* Tables that exist before the accessor is constructed: the empty one, a  *)
(* three-row one and two larger than a page, all rows of repository 1.     *)
(* Row n has                                                               *)
(* complexityScore 4 or 6 by parity, churnScore null on every third row,   *)
(* and packageVersionScore only beyond row SummaryLimit.                   *)
(***************************************************************************)
BulkRow(n) ==
    [c \in Columns |->
        CASE c = "repoID" -> StrV(1)
          [] c = "importID" -> StrV(100 + n)
          [] c = "commitHistScore" -> IntV(4)
          [] c = "complexityScore" -> IntV(IF n % 2 = 1 THEN 4 ELSE 6)
          [] c = "churnScore" -> IF n % 3 = 0 THEN NoneV ELSE IntV(5)
          [] c = "totalScore" -> NoneV
          [] c = "packageVersionScore" -> IF n > SummaryLimit THEN IntV(7) ELSE NoneV]

Bulk(n) == [k \in 1..n |-> BulkRow(k)]

Seeds == {<<>>, Bulk(3), Bulk(DefaultLimit + BulkExtra), Bulk(SummaryLimit + BulkExtra)}

(***************************************************************************)
(* The state machine: one action per public method.                        *)
(***************************************************************************)
Idle == [op |-> "idle", args |-> <<>>, reqs |-> <<>>, replies |-> <<>>,
         result |-> PyNone]

\* a call runs to its return before the next one begins
Done(op, args, o) ==
    /\ store' = o.store
    /\ last' = [op |-> op, args |-> args, reqs |-> o.reqs, replies |-> o.replies,
                result |-> o.result]

Init ==
    /\ store \in Seeds
    /\ last = Idle

CreateMetric ==
    /\ last = Idle
    /\ \E metric_data \in Payloads :
           \E o \in create_metric(metric_data, store) :
               Done("create_metric", [metric_data |-> metric_data], o)

GetMetricByKeys ==
    /\ last = Idle
    /\ \E repo_id \in RepoIDs, import_id \in ImportIDs :
           \E o \in get_metric_by_keys(repo_id, import_id, store) :
               Done("get_metric_by_keys", [repo_id |-> repo_id, import_id |-> import_id], o)

GetMetricsByRepo ==
    /\ last = Idle
    /\ \E repo_id \in RepoIDs, limit \in Limits, offset \in Offsets :
           \E o \in get_metrics_by_repo(repo_id, limit, offset, store) :
               Done("get_metrics_by_repo",
                    [repo_id |-> repo_id, limit |-> limit, offset |-> offset], o)

GetMetricsByImport ==
    /\ last = Idle
    /\ \E import_id \in ImportIDs, limit \in Limits, offset \in Offsets :
           \E o \in get_metrics_by_import(import_id, limit, offset, store) :
               Done("get_metrics_by_import",
                    [import_id |-> import_id, limit |-> limit, offset |-> offset], o)

GetAllMetrics ==
    /\ last = Idle
    /\ \E limit \in Limits, offset \in Offsets :
           \E o \in get_all_metrics(limit, offset, store) :
               Done("get_all_metrics", [limit |-> limit, offset |-> offset], o)

GetMetricsByScoreRange ==
    /\ last = Idle
    /\ \E score_field \in ScoreFieldInputs, range \in ScoreRanges :
           \E o \in get_metrics_by_score_range(score_field, range[1], range[2], store) :
               Done("get_metrics_by_score_range",
                    [score_field |-> score_field, min_score |-> range[1],
                     max_score |-> range[2]], o)

GetMetricsSummary ==
    /\ last = Idle
    /\ \E o \in get_metrics_summary(store) :
           Done("get_metrics_summary", <<>>, o)

GetRepoMetricsSummary ==
    /\ last = Idle
    /\ \E repo_id \in RepoIDs :
           \E o \in get_repo_metrics_summary(repo_id, store) :
               Done("get_repo_metrics_summary", [repo_id |-> repo_id], o)

\* the caller has the returned value; nothing of the call stays behind
Return ==
    /\ last # Idle
    /\ last' = Idle
    /\ UNCHANGED store

Next ==
    \/ CreateMetric
    \/ GetMetricByKeys
    \/ GetMetricsByRepo
    \/ GetMetricsByImport
    \/ GetAllMetrics
    \/ GetMetricsByScoreRange
    \/ GetMetricsSummary
    \/ GetRepoMetricsSummary
    \/ Return

Spec == Init /\ [][Next]_vars

(***************************************************************************)
(* Properties.  They are written from the contract, with the field names   *)
(* and the expected values spelled out, not taken from the definitions     *)
(* above.                                                                  *)
(***************************************************************************)
FourFields == {"repoID", "importID", "commitHistScore", "complexityScore"}
FiveScores == {"commitHistScore", "complexityScore", "churnScore", "totalScore",
               "packageVersionScore"}

Complete(md) == FourFields \subseteq DOMAIN md
Answered(reply, status) == ~reply.raised /\ reply.status = status

\* C1: create_metric on a payload with the four required fields and both
\* scores integers sends exactly one POST carrying the payload, and on a 201
\* reply returns the echoed record (the first element of an echoed list).
C1_CreateWritesOnceReturnsEcho ==
    (/\ last.op = "create_metric"
     /\ Complete(last.args.metric_data)
     /\ last.args.metric_data["commitHistScore"].k = "int"
     /\ last.args.metric_data["complexityScore"].k = "int")
    => /\ Len(last.reqs) = 1
       /\ last.reqs[1].method = "POST"
       /\ last.reqs[1].json = last.args.metric_data
       /\ Answered(last.replies[1], 201)
            => /\ last.result.kind = "dict"
               /\ last.result.rows = <<last.replies[1].body.rows[1]>>
               /\ last.result.rows[1] = RowOf(last.args.metric_data)

C1_Witness ==
    /\ last.op = "create_metric"
    /\ Len(last.reqs) = 1
    /\ Answered(last.replies[1], 201)
    /\ last.replies[1].body.kind = "list"
    /\ last.result = PyDict(RowOf(last.args.metric_data))
    /\ "churnScore" \in DOMAIN last.args.metric_data

\* C2: create_metric on a payload that lacks one of the four required
\* fields returns None, sends no request, and leaves the table as it was.
C2_MissingFieldNoWrite ==
    [][(/\ last'.op = "create_metric"
        /\ last.op = "idle"
        /\ ~Complete(last'.args.metric_data))
       => /\ last'.result = PyNone
          /\ last'.reqs = <<>>
          /\ store' = store]_vars

C2_Witness ==
    /\ last.op = "create_metric"
    /\ "importID" \notin DOMAIN last.args.metric_data
    /\ FourFields \ {"importID"} \subseteq DOMAIN last.args.metric_data
    /\ last.args.metric_data["commitHistScore"].k = "int"
    /\ last.args.metric_data["complexityScore"].k = "int"
    /\ last.result = PyNone
    /\ last.reqs = <<>>

\* C3: create_metric on a payload whose commitHistScore or complexityScore
\* is present but not an integer (string, float, null, boolean) returns None
\* and sends no write to the table.
C3_NonIntegerScoreNoWrite ==
    (/\ last.op = "create_metric"
     /\ Complete(last.args.metric_data)
     /\ \/ last.args.metric_data["commitHistScore"].k # "int"
        \/ last.args.metric_data["complexityScore"].k # "int")
    => /\ last.result = PyNone
       /\ last.reqs = <<>>

\* the rows of st whose field lies in [lo, hi]
InRange(st, field, lo, hi) ==
    LET Test(row) == row[field].k = "int" /\ lo <= row[field].v /\ row[field].v <= hi
    IN SelectSeq(st, Test)

\* C4: get_metrics_by_score_range on a valid score field puts both gte.min
\* and lte.max into the query and on a 200 reply returns exactly the rows
\* whose field lies in [min_score, max_score].
C4_RangeIsInclusiveBothEnds ==
    (/\ last.op = "get_metrics_by_score_range"
     /\ last.args.score_field \in FiveScores
     /\ Answered(last.replies[1], 200))
    => last.result = PyList(InRange(store, last.args.score_field,
                                    last.args.min_score, last.args.max_score))

\* the rows of st that belong to repository r
RowsOfRepo(st, r) ==
    LET Test(row) == row["repoID"] = StrV(r) IN SelectSeq(st, Test)

\* the mean of the non-null values of field over rows, as v sees it
IsMeanOf(v, rows, field) ==
    LET idx == {i \in DOMAIN rows : rows[i][field].k # "none"}
        vals == [i \in DOMAIN rows |-> IF i \in idx THEN rows[i][field] ELSE IntV(0)]
    IN IF idx = {} THEN v.k = "none"
       ELSE v.k = "float" /\ v.num * Cardinality(idx) = v.den * SumV(vals, 1, Len(rows))

\* avg is the dict of the five averages over rows, or {} for no rows
IsAveragesOf(avg, rows) ==
    IF Len(rows) = 0 THEN avg = {}
    ELSE /\ Cardinality(avg) = 5
         /\ \A f \in FiveScores : \E item \in avg :
               item[1] = AvgKey(f) /\ IsMeanOf(item[2], rows, f)

\* C5: get_repo_metrics_summary(repo_id), when the table answers, has
\* metric_count equal to the number of rows the table holds for repo_id,
\* however many, and the averages over all of those rows.
C5_RepoSummaryCoversAllRows ==
    (/\ last.op = "get_repo_metrics_summary"
     /\ Answered(last.replies[1], 200))
    => /\ last.result.repo_id = last.args.repo_id
       /\ last.result.metric_count = Len(RowsOfRepo(store, last.args.repo_id))
       /\ IsAveragesOf(last.result.average_scores,
                       RowsOfRepo(store, last.args.repo_id))

\* a request of the call failed: the transport raised, or the status is not
\* the success status of the method
SomeRequestFailed ==
    \E i \in DOMAIN last.replies :
        \/ last.replies[i].raised
        \/ last.replies[i].status # (IF last.reqs[i].method = "POST" THEN 201 ELSE 200)

\* the call was turned down before any request
Rejected ==
    /\ last.op \in {"create_metric", "get_metrics_by_score_range"}
    /\ last.reqs = <<>>

EmptyShape ==
    CASE last.op \in {"create_metric", "get_metric_by_keys"} -> PyNone
      [] last.op \in {"get_metrics_by_repo", "get_metrics_by_import",
                      "get_all_metrics", "get_metrics_by_score_range"} -> PyList(<<>>)
      [] last.op = "get_metrics_summary" -> SummaryOf(0, {})
      [] last.op = "get_repo_metrics_summary" ->
            RepoSummaryOf(last.args.repo_id, 0, {})

\* C6: a call during which a validation error, a store error or a transport
\* error occurs returns the empty shape of its method.
C6_FailureGivesEmptyShape ==
    (last.op # "idle" /\ (SomeRequestFailed \/ Rejected)) => last.result = EmptyShape

\* C7: get_metrics_summary has total_count equal to the total of the count
\* reply's content-range (0 without the header) and average_scores equal to
\* the five averages over the fetched rows, the first SummaryLimit rows of
\* the table at most: nulls left out of sum and count, None for a field
\* with no value, {} when nothing is fetched.
C7_SummaryCountAndAverages ==
    last.op = "get_metrics_summary"
    => LET count_reply == last.replies[1]
           fetched == IF Len(last.replies) = 2 /\ Answered(last.replies[2], 200)
                      THEN SubSeq(store, 1, Min(Len(store), 1000))
                      ELSE <<>>
       IN /\ last.result.total_count =
                IF Answered(count_reply, 200) /\ count_reply.content_range.present
                THEN count_reply.content_range.total ELSE 0
          /\ IsAveragesOf(last.result.average_scores, fetched)

C7_Witness ==
    /\ last.op = "get_metrics_summary"
    /\ Len(store) > 1000
    /\ Len(last.replies) = 2
    /\ Answered(last.replies[2], 200)
    /\ last.result.total_count = Len(store)
    /\ <<"avg_complexityScore", [k |-> "float", num |-> 5, den |-> 1]>>
          \in last.result.average_scores
    /\ <<"avg_churnScore", [k |-> "float", num |-> 5, den |-> 1]>>
          \in last.result.average_scores
    /\ <<"avg_packageVersionScore", NoneAvg>> \in last.result.average_scores

\* C8: get_metric_by_keys(r, i) asks for repoID = r and importID = i and,
\* when the table answers, returns the row with key (r, i) if the table
\* holds one and None if it holds none.
C8_PointLookup ==
    last.op = "get_metric_by_keys"
    => LET r == last.args.repo_id
           i == last.args.import_id
           held == {n \in DOMAIN store :
                       store[n]["repoID"] = StrV(r) /\ store[n]["importID"] = StrV(i)}
       IN /\ DOMAIN last.reqs[1].params = {"repoID", "importID", "select"}
          /\ last.reqs[1].params["repoID"] = [op |-> "eq", v |-> r]
          /\ last.reqs[1].params["importID"] = [op |-> "eq", v |-> i]
          /\ Answered(last.replies[1], 200)
               => IF held = {} THEN last.result = PyNone
                  ELSE \E n \in held : last.result = PyDict(store[n])

C8_Witness ==
    /\ last.op = "get_metric_by_keys"
    /\ Len(store) = 2
    /\ store[1]["repoID"] = store[2]["repoID"]
    /\ last.result = PyDict(store[2])

\* C9: get_metrics_by_score_range with a field name outside the five score
\* fields returns [] and sends no request, whatever the bounds.
C9_UnknownFieldNoCall ==
    (last.op = "get_metrics_by_score_range" /\ last.args.score_field \notin FiveScores)
    => /\ last.result = PyList(<<>>)
       /\ last.reqs = <<>>

C9_Witness ==
    /\ last.op = "get_metrics_by_score_range"
    /\ last.args.score_field = "repoID"
    /\ Len(store) > 0
    /\ last.result = PyList(<<>>)
    /\ last.reqs = <<>>

\* C10: a stored row is never changed or removed.  Only create_metric sends
\* a POST and it can only append one row; the seven read methods send GETs
\* only and leave the table as it was, also when a request fails.
C10_RowsOnlyAppendedByCreate ==
    [][/\ Len(store') >= Len(store)
       /\ \A n \in DOMAIN store : store'[n] = store[n]
       /\ store' # store
            => /\ last'.op = "create_metric"
               /\ Len(store') = Len(store) + 1
       /\ last'.op \notin {"create_metric", "idle"}
            => /\ store' = store
               /\ \A n \in DOMAIN last'.reqs : last'.reqs[n].method = "GET"]_vars

C10_Witness ==
    /\ last.op = "get_metrics_summary"
    /\ Len(store) = MaxRows
    /\ Len(last.reqs) = 2
    /\ last.replies[2].raised

====
